---- MODULE Spec2Model ----
(***************************************************************************)
(* Model of src/src/mux.rs: the mux gate (MuxChip::configure), its witness *)
(* assignment (MuxChip::mux) and the circuit driver (MuxCircuit).          *)
(*                                                                         *)
(* The host framework is modelled only as far as the code calls it: a      *)
(* constraint system that hands out columns and stores gates, and a        *)
(* layouter that places every assign_region call below the previous one    *)
(* and whose binding calls either store the value or answer with an error. *)
(* Which binding call the host refuses, and with which error, is an input. *)
(***************************************************************************)
EXTENDS Integers, Sequences, FiniteSets, TLC

\* Bounds of the model.
L == 2              \* the const generic L of MuxCircuit (number of gadget instances)
FieldOrder == 3     \* size of the stand-in for the field F (arithmetic is modulo it)
MaxRow == 2         \* largest row argument a direct caller of mux passes

VARIABLES
    circuit,        \* the MuxCircuit value: [a, b : Seq(Value), mux : Value]
    order,          \* the order in which the instances 0..L-1 are synthesized
    meta,           \* the host ConstraintSystem: column counters and gates
    config,         \* the MuxConfig returned by configure
    pc,             \* position of the host/driver
    i,              \* loop counter of synthesize
    lay,            \* the layouter: [cells, writers, nextRow]
    calls,          \* one record per mux invocation made so far
    synthResult,    \* what synthesize returned
    args,           \* arguments of a direct mux call: [a, b, sel, row]
    refusal,        \* the host's answer to that call: [failAt, err]
    muxResult       \* what that direct mux call returned

vars == <<circuit, order, meta, config, pc, i, lay, calls, synthResult, args, refusal,
          muxResult>>

-----------------------------------------------------------------------------
\* Value<F>: a field element that is known, or the unknown placeholder.

Field == 0..(FieldOrder - 1)

Known(x) == [known |-> TRUE, v |-> x % FieldOrder]

Unknown == [known |-> FALSE, v |-> 0]

Values == {Known(x) : x \in Field} \cup {Unknown}

\* What a cell of the grid reads as before anything is bound to it.
Unassigned == [known |-> FALSE, v |-> FieldOrder]

ValueAdd(x, y) ==
    IF x.known /\ y.known THEN Known(x.v + y.v) ELSE Unknown

ValueSub(x, y) ==
    IF x.known /\ y.known THEN Known(x.v + FieldOrder - y.v) ELSE Unknown

ValueMulZeroShortcut(x, y) ==
    IF (x.known /\ x.v = 0) \/ (y.known /\ y.v = 0) THEN Known(0)
    ELSE IF x.known /\ y.known THEN Known(x.v * y.v) ELSE Unknown

ValueMul(x, y) ==
    IF x.known /\ y.known THEN Known(x.v * y.v) ELSE Unknown

-----------------------------------------------------------------------------
\* MuxChip::configure

EmptyMeta == [advice |-> 0, fixed |-> 0, selectors |-> 0, gates |-> <<>>]

NoConfig == [advice |-> <<>>, sel |-> <<"none", 0>>, s |-> <<"none", 0>>]

\* The columns configure allocates, in allocation order.
ConfigureColumns(m) ==
    [advice |-> [n \in 1..3 |-> <<"advice", m.advice + n - 1>>],
     s      |-> <<"selector", m.selectors>>,
     sel    |-> <<"fixed", m.fixed>>]

\* The queries of the gate closure: s*((1 - sel)*a + sel*b - out).
MuxGate(cfg) ==
    [name |-> "mux", s |-> cfg.s, a |-> cfg.advice[1], b |-> cfg.advice[2],
     out |-> cfg.advice[3], sel |-> cfg.sel]

ConfigureMeta(m) ==
    [advice    |-> m.advice + 3,
     fixed     |-> m.fixed + 1,
     selectors |-> m.selectors + 1,
     gates     |-> Append(m.gates, MuxGate(ConfigureColumns(m)))]

\* Reading the grid at (column, row).
CellValue(cells, col, r) ==
    IF <<col, r>> \in DOMAIN cells THEN cells[<<col, r>>] ELSE Unassigned

SelectorActive(cells, g, r) == CellValue(cells, g.s, r) = Known(1)

\* The polynomial of the gate evaluated at row r.
GatePoly(cells, g, r) ==
    ValueMul(CellValue(cells, g.s, r),
             ValueSub(ValueAdd(ValueMul(ValueSub(Known(1), CellValue(cells, g.sel, r)),
                                        CellValue(cells, g.a, r)),
                               ValueMul(CellValue(cells, g.sel, r),
                                        CellValue(cells, g.b, r))),
                      CellValue(cells, g.out, r)))

\* The gate holds at r: vacuously where the selector is off, else the polynomial is 0.
GateHoldsAt(cells, g, r) ==
    SelectorActive(cells, g, r) => GatePoly(cells, g, r) = Known(0)

\* MockProver::assert_satisfied: every gate holds at every row of the grid.
Satisfied(m, ly) ==
    \A n \in DOMAIN m.gates : \A r \in 0..(ly.nextRow - 1) :
        GateHoldsAt(ly.cells, m.gates[n], r)

-----------------------------------------------------------------------------
\* MuxChip::mux

\* The binding calls of the region closure, in program order.
StepOrder == <<"enable", "sel", "in_a", "in_b", "out">>

Steps == {StepOrder[n] : n \in DOMAIN StepOrder}

\* Host errors a binding call can answer with.
Errors == {"Synthesis", "NotEnoughRowsAvailable"}

\* failAt = 0: the host accepts every binding call; failAt = k: it refuses the k-th.
FailPoints == 0..Len(StepOrder)

MuxOutSwapped(a, b, sel) ==
    ValueAdd(ValueMul(a, sel), ValueMul(b, ValueSub(Known(1), sel)))

MuxOutBranch(a, b, sel) ==
    IF ~(a.known /\ b.known /\ sel.known) THEN Unknown
    ELSE IF sel.v = 0 THEN a ELSE b

\* let out = a * (Value::known(F::ONE) - sel) + b * sel
MuxOut(a, b, sel) ==
    ValueAdd(ValueMul(a, ValueSub(Known(1), sel)), ValueMul(b, sel))

\* The column each binding call names.
StepColumn(cfg, step) ==
    CASE step = "enable" -> cfg.s
      [] step = "sel"    -> cfg.sel
      [] step = "in_a"   -> cfg.advice[1]
      [] step = "in_b"   -> cfg.advice[2]
      [] step = "out"    -> cfg.advice[3]

\* The value each binding call hands over (an enabled selector reads as 1).
StepValue(step, a, b, sel) ==
    CASE step = "enable" -> Known(1)
      [] step = "sel"    -> sel
      [] step = "in_a"   -> a
      [] step = "in_b"   -> b
      [] step = "out"    -> MuxOut(a, b, sel)

StepRowOutBelow(step, row) == IF step = "out" THEN row + 1 ELSE row

\* The region offset each binding call names: every one of them names `row`.
StepRow(step, row) == row

AttemptedAll(failAt) == StepOrder

\* The binding calls made when the host refuses the failAt-th: `?` returns at once.
Attempted(failAt) ==
    IF failAt = 0 THEN StepOrder ELSE SubSeq(StepOrder, 1, failAt)

\* The binding calls that stored their value.
Bound(failAt) ==
    {Attempted(failAt)[n] : n \in {m \in DOMAIN Attempted(failAt) : m # failAt}}

\* Rows the region spans: up to the largest offset its closure names.
RegionRows(row) ==
    1 + CHOOSE m \in {StepRow(s, row) : s \in Steps} :
            \A s \in Steps : StepRow(s, row) <= m

NoCell == [column |-> <<"none", 0>>, row |-> 0, value |-> Unassigned]

Ok(cell) == [ok |-> TRUE, err |-> "none", cell |-> cell]

Err(e) == [ok |-> FALSE, err |-> e, cell |-> NoCell]

NoResult == [ok |-> FALSE, err |-> "pending", cell |-> NoCell]

\* What the closure, and with it mux, returns.
MuxResult(cfg, start, a, b, sel, row, failAt, err) ==
    IF failAt = 0
    THEN Ok([column |-> cfg.advice[3], row |-> start + StepRow("out", row),
             value |-> MuxOut(a, b, sel)])
    ELSE Err(err)

\* layouter.assign_region(|| "sel", |region| { ... }): the region is placed at the
\* layouter's next free row, and the closure's binding calls act on the grid. What was
\* bound before a refused call stays bound: the code undoes nothing.
MuxRegion(ly, cfg, inst, a, b, sel, row, failAt, err) ==
    LET start == ly.nextRow
        bound == Bound(failAt)
        keys  == {<<StepColumn(cfg, s), start + StepRow(s, row)>> : s \in bound}
        stepOf(k) == CHOOSE s \in bound :
                        k = <<StepColumn(cfg, s), start + StepRow(s, row)>>
        old(k) == IF k \in DOMAIN ly.writers THEN ly.writers[k] ELSE <<>>
    IN  [lay |-> [cells   |-> [k \in keys |-> StepValue(stepOf(k), a, b, sel)] @@ ly.cells,
                  writers |-> [k \in keys \cup DOMAIN ly.writers |->
                                  IF k \in keys THEN Append(old(k), inst) ELSE old(k)],
                  nextRow |-> start + RegionRows(row)],
         result |-> MuxResult(cfg, start, a, b, sel, row, failAt, err),
         call |-> [inst |-> inst, row |-> row, start |-> start,
                   rows |-> RegionRows(row), failAt |-> failAt,
                   attempted |-> Attempted(failAt), ok |-> failAt = 0]]

\* The out value of the latest complete row of the grid, if there is one.
PrevOut(ly, cfg, a) ==
    IF \E r \in 0..(ly.nextRow - 1) : <<cfg.advice[3], r>> \in DOMAIN ly.cells
    THEN ly.cells[<<cfg.advice[3],
                    CHOOSE r \in 0..(ly.nextRow - 1) :
                        /\ <<cfg.advice[3], r>> \in DOMAIN ly.cells
                        /\ \A q \in 0..(ly.nextRow - 1) :
                              <<cfg.advice[3], q>> \in DOMAIN ly.cells => q <= r>>]
    ELSE a

MuxChained(ly, cfg, inst, a, b, sel, row, failAt, err) ==
    MuxRegion(ly, cfg, inst, PrevOut(ly, cfg, a), b, sel, row, failAt, err)

\* pub fn mux(&self, layouter, a, b, sel, row) -> Result<Element<F>, Error>
Mux(ly, cfg, inst, a, b, sel, row, failAt, err) ==
    MuxRegion(ly, cfg, inst, a, b, sel, row, failAt, err)

EmptyLayouter == [cells |-> <<>>, writers |-> <<>>, nextRow |-> 0]

-----------------------------------------------------------------------------
\* MuxCircuit

\* Self::default(): empty slices and Value::unknown().
DefaultCircuit == [a |-> <<>>, b |-> <<>>, mux |-> Unknown]

\* fn without_witnesses(&self) -> Self
WithoutWitnessesOf(c) == DefaultCircuit

\* Circuits a caller builds: known vectors of length L, a[n] = x + n and
\* b[n] = y * (n + 1) (the test's vectors are x = 1, y = 2), and any sel.
Circuits ==
    {[a |-> [n \in 1..L |-> Known(x + n - 1)],
      b |-> [n \in 1..L |-> Known(y * n)],
      mux |-> sel] : x \in Field, y \in Field, sel \in Values}

IdentityOrder == [n \in 1..L |-> n - 1]

Orders ==
    {o \in [1..L -> 0..(L - 1)] : \A m, n \in 1..L : m # n => o[m] # o[n]}

\* self.a[i] and self.b[i] are bounds-checked slice reads.
InBounds(c, idx) == idx < Len(c.a) /\ idx < Len(c.b)

\* The row argument the driver passes for instance idx: the loop index itself.
DriverRow(idx) == idx

-----------------------------------------------------------------------------
\* Initial states

NoRefusal == [failAt |-> 0, err |-> "none"]

InitCommon ==
    /\ meta = EmptyMeta
    /\ config = NoConfig
    /\ pc = "start"
    /\ i = 0
    /\ lay = EmptyLayouter
    /\ calls = <<>>
    /\ synthResult = "none"
    /\ refusal = NoRefusal
    /\ muxResult = NoResult

DirectArgs == [a : Values, b : Values, sel : Values, row : 0..MaxRow]

NoArgs == [a |-> Unknown, b |-> Unknown, sel |-> Unknown, row |-> 0]

\* The driver as written: instances in the order 0, 1, ..., L-1.
Init ==
    /\ InitCommon
    /\ circuit \in Circuits
    /\ order = IdentityOrder
    /\ args = NoArgs

\* The instances in any order.
InitPerm ==
    /\ InitCommon
    /\ circuit \in Circuits
    /\ order \in Orders
    /\ args = NoArgs

\* A direct caller of MuxChip::mux with any values and row.
InitChip ==
    /\ InitCommon
    /\ circuit = DefaultCircuit
    /\ order = IdentityOrder
    /\ args \in DirectArgs

-----------------------------------------------------------------------------
\* Actions

\* Circuit::configure, run once by the host before synthesis.
Configure ==
    /\ pc = "start"
    /\ meta' = ConfigureMeta(meta)
    /\ config' = ConfigureColumns(meta)
    /\ pc' = "configured"
    /\ UNCHANGED <<circuit, order, i, lay, calls, synthResult, args, refusal, muxResult>>

\* circuit.without_witnesses(), taken before synthesis starts.
WithoutWitnesses ==
    /\ pc \in {"start", "configured"}
    /\ circuit # DefaultCircuit
    /\ circuit' = WithoutWitnessesOf(circuit)
    /\ UNCHANGED <<order, meta, config, pc, i, lay, calls, synthResult, args, refusal,
                   muxResult>>

\* One pass of `for i in 0..L` in synthesize: the slice reads, then chip.mux, whose
\* result is dropped by `let _ =`.
SynthesizeIter ==
    /\ pc \in {"configured", "synth"}
    /\ i < L
    /\ LET idx == order[i + 1] IN
       IF ~InBounds(circuit, idx)
       THEN /\ pc' = "panicked"
            /\ UNCHANGED <<i, lay, calls>>
       ELSE \E failAt \in FailPoints, err \in Errors :
              LET r == Mux(lay, config, idx, circuit.a[idx + 1], circuit.b[idx + 1],
                           circuit.mux, DriverRow(idx), failAt, err)
              IN  /\ lay' = r.lay
                  /\ calls' = Append(calls, r.call)
                  /\ i' = i + 1
                  /\ pc' = "synth"
    /\ UNCHANGED <<circuit, order, meta, config, synthResult, args, refusal, muxResult>>

\* The loop is over: Ok(()).
SynthesizeReturn ==
    /\ pc \in {"configured", "synth"}
    /\ i = L
    /\ synthResult' = "Ok"
    /\ pc' = "done"
    /\ UNCHANGED <<circuit, order, meta, config, i, lay, calls, args, refusal, muxResult>>

\* A direct call chip.mux(layouter, a, b, sel, row).
ChipMux ==
    /\ pc = "configured"
    /\ \E failAt \in FailPoints, err \in Errors :
          LET r == Mux(lay, config, 0, args.a, args.b, args.sel, args.row, failAt, err)
          IN  /\ lay' = r.lay
              /\ calls' = Append(calls, r.call)
              /\ refusal' = [failAt |-> failAt, err |-> IF failAt = 0 THEN "none" ELSE err]
              /\ muxResult' = r.result
    /\ pc' = "returned"
    /\ UNCHANGED <<circuit, order, meta, config, i, synthResult, args>>

Next == Configure \/ WithoutWitnesses \/ SynthesizeIter \/ SynthesizeReturn

NextChip == Configure \/ ChipMux

Spec == Init /\ [][Next]_vars

SpecPerm == InitPerm /\ [][Next]_vars

SpecChip == InitChip /\ [][NextChip]_vars

-----------------------------------------------------------------------------
\* Properties of a direct mux call (SpecChip)

\* The physical row a direct call's `row` lands on.
DirectRow == calls[1].start + args.row

Returned == pc = "returned" /\ Len(calls) = 1

AllKnown == args.a.known /\ args.b.known /\ args.sel.known

\* C1: for field elements a, b and sel in {0, 1}, a successful mux binds a (sel = 0)
\* or b (sel = 1) into the out column at `row`, returns that cell, and the registered
\* gate, active at that row, is satisfied there.
C1_MuxSelects ==
    (Returned /\ muxResult.ok /\ args.a.known /\ args.b.known
              /\ args.sel \in {Known(0), Known(1)})
    => /\ CellValue(lay.cells, config.advice[3], DirectRow)
            = (IF args.sel = Known(0) THEN args.a ELSE args.b)
       /\ muxResult.cell = [column |-> config.advice[3], row |-> DirectRow,
                            value |-> IF args.sel = Known(0) THEN args.a ELSE args.b]
       /\ Len(meta.gates) = 1
       /\ SelectorActive(lay.cells, meta.gates[1], DirectRow)
       /\ GateHoldsAt(lay.cells, meta.gates[1], DirectRow)
       /\ Satisfied(meta, lay)

C1_Witness ==
    /\ Returned /\ muxResult.ok
    /\ args.a = Known(1) /\ args.b = Known(2) /\ args.sel = Known(1) /\ args.row > 0
    /\ CellValue(lay.cells, config.advice[3], DirectRow) = Known(2)

\* C2: for any field elements a, b, sel, whether mux fails is decided by the host's
\* answers alone, never by sel; when it succeeds the out cell holds
\* a*(1-sel) + b*sel modulo the field order and the gate is satisfied at the row;
\* for sel = 2 that is 2*b - a.
C2_LinearBlend ==
    (Returned /\ AllKnown)
    => /\ muxResult.ok = (refusal.failAt = 0)
       /\ ~muxResult.ok => muxResult.err \in Errors /\ muxResult.err = refusal.err
       /\ muxResult.ok =>
            /\ CellValue(lay.cells, config.advice[3], DirectRow).known
            /\ CellValue(lay.cells, config.advice[3], DirectRow).v
                 = (args.a.v * (1 + FieldOrder - args.sel.v) + args.b.v * args.sel.v)
                       % FieldOrder
            /\ GateHoldsAt(lay.cells, meta.gates[1], DirectRow)
            /\ SelectorActive(lay.cells, meta.gates[1], DirectRow)
            /\ args.sel = Known(2) =>
                 CellValue(lay.cells, config.advice[3], DirectRow).v
                     = (2 * args.b.v + FieldOrder - args.a.v) % FieldOrder

C2_Witness ==
    /\ Returned /\ muxResult.ok
    /\ args.sel = Known(2) /\ Known(2) \notin {Known(0), Known(1)}
    /\ args.a = Known(1) /\ args.b = Known(2)
    /\ CellValue(lay.cells, config.advice[3], DirectRow) = Known(2 * 2 - 1)

\* C3: the value bound to the out cell is unknown as soon as one of a, b, sel is
\* unknown (also when the unknown operand is multiplied by a known zero), and known
\* when all three are known.
C3_UnknownPropagates ==
    (Returned /\ muxResult.ok)
    => /\ CellValue(lay.cells, config.advice[3], DirectRow).known = AllKnown
       /\ ~AllKnown => CellValue(lay.cells, config.advice[3], DirectRow) = Unknown
       /\ muxResult.cell.value = CellValue(lay.cells, config.advice[3], DirectRow)

\* a is unknown and is multiplied by 1 - sel = 0; b and sel are known.
C3_Witness ==
    /\ Returned /\ muxResult.ok
    /\ args.a = Unknown /\ args.b = Known(2) /\ args.sel = Known(1)
    /\ CellValue(lay.cells, config.advice[3], DirectRow) = Unknown

\* The five binding calls in the order the claim gives them.
ClaimedOrder == <<"enable", "sel", "in_a", "in_b", "out">>

\* The cell the claim's n-th binding call writes.
ClaimedCell(n) ==
    <<CASE n = 1 -> config.s [] n = 2 -> config.sel [] n = 3 -> config.advice[1]
        [] n = 4 -> config.advice[2] [] n = 5 -> config.advice[3],
      DirectRow>>

\* C8: the binding calls run in the order enable, sel, in_a, in_b, out; when the host
\* refuses the k-th, mux returns that very error, the calls after the k-th are not made
\* (their cells stay unassigned) and no out cell is returned; mux returns the bound out
\* cell only when all five were accepted.
C8_ErrorPropagation ==
    Returned
    => LET k == refusal.failAt IN
       /\ calls[1].attempted = SubSeq(ClaimedOrder, 1, IF k = 0 THEN 5 ELSE k)
       /\ \A n \in 1..5 : (k # 0 /\ n >= k) => ClaimedCell(n) \notin DOMAIN lay.cells
       /\ k # 0 => muxResult = Err(refusal.err) /\ muxResult.cell = NoCell
       /\ muxResult.ok = (k = 0)
       /\ muxResult.ok => /\ muxResult.cell.column = config.advice[3]
                          /\ muxResult.cell.row = DirectRow
                          /\ DOMAIN lay.cells = {ClaimedCell(n) : n \in 1..5}

\* The host refuses the third binding call (in_a) with NotEnoughRowsAvailable.
C8_Witness ==
    /\ Returned
    /\ refusal = [failAt |-> 3, err |-> "NotEnoughRowsAvailable"]
    /\ muxResult = Err("NotEnoughRowsAvailable")
    /\ calls[1].attempted = <<"enable", "sel", "in_a">>

-----------------------------------------------------------------------------
\* Properties of the driver (Spec, SpecPerm)

Gate == meta.gates[1]

Rows == 0..(lay.nextRow - 1)

ActiveRows == {r \in Rows : SelectorActive(lay.cells, Gate, r)}

\* The n-th (from 0) row with the selector active, counted from the top of the grid.
NthActiveRow(n) ==
    CHOOSE r \in ActiveRows : Cardinality({q \in ActiveRows : q < r}) = n

\* C4: when the mux invocation for some index fails, synthesize makes no later
\* invocation and returns an error; it returns Ok only when all L invocations
\* succeeded.
C4_FailFast ==
    /\ \A n \in DOMAIN calls : ~calls[n].ok => n = Len(calls)
    /\ synthResult = "Ok" => Len(calls) = L /\ \A n \in DOMAIN calls : calls[n].ok

\* C5: for known vectors a, b and a known sel, after synthesize exactly L rows have
\* the selector active, the i-th of them holds a[i], b[i], sel and out = b[i] for
\* sel = 1 (a[i] for sel = 0), and the constraint system is satisfied.
C5_EndToEnd ==
    (pc = "done" /\ circuit # DefaultCircuit /\ circuit.mux.known)
    => /\ Cardinality(ActiveRows) = L
       /\ \A idx \in 0..(L - 1) :
            LET r == NthActiveRow(idx) IN
            /\ CellValue(lay.cells, config.advice[1], r) = circuit.a[idx + 1]
            /\ CellValue(lay.cells, config.advice[2], r) = circuit.b[idx + 1]
            /\ CellValue(lay.cells, config.sel, r) = circuit.mux
            /\ circuit.mux = Known(1) =>
                 CellValue(lay.cells, config.advice[3], r) = circuit.b[idx + 1]
            /\ circuit.mux = Known(0) =>
                 CellValue(lay.cells, config.advice[3], r) = circuit.a[idx + 1]
       /\ Satisfied(meta, lay)

\* C6: every mux invocation of the driver gets row 0, so every region is one row tall.
C6_RowZero ==
    \A n \in DOMAIN calls : calls[n].row = 0 /\ calls[n].rows = 1

\* C10: synthesize on the circuit without_witnesses() returns completes all L
\* iterations, binding unknown values in L rows, and never reads a[i] or b[i] out of
\* bounds.
C10_ShapeOnly ==
    circuit = DefaultCircuit
    => /\ pc # "panicked"
       /\ pc = "done" => Len(calls) = L

\* The cells invocation number n has written.
WrittenBy(n) == {k \in DOMAIN lay.writers : \E m \in DOMAIN lay.writers[k] :
                                              lay.writers[k][m] = calls[n].inst}

\* The rows of the region of invocation number n.
RegionOf(n) == calls[n].start..(calls[n].start + calls[n].rows - 1)

C7_Disjoint ==
    /\ \A k \in DOMAIN lay.writers : Len(lay.writers[k]) = 1
    /\ DOMAIN lay.writers = DOMAIN lay.cells
    /\ \A n \in DOMAIN calls :
         /\ Cardinality({k[2] : k \in WrittenBy(n)}) = (IF calls[n].failAt = 1 THEN 0 ELSE 1)
         /\ \A k \in WrittenBy(n) : k[2] \in RegionOf(n)
         /\ \A m \in DOMAIN calls : m # n =>
              /\ calls[m].inst # calls[n].inst
              /\ RegionOf(m) \cap RegionOf(n) = {}

C7_Frame ==
    \A k \in DOMAIN lay.cells :
        /\ k \in DOMAIN lay'.cells
        /\ lay'.cells[k] = lay.cells[k]
        /\ lay'.writers[k] = lay.writers[k]

InstanceCell(c, n) ==
    CellValue(lay.cells,
              CASE n = 1 -> config.s [] n = 2 -> config.sel [] n = 3 -> config.advice[1]
                [] n = 4 -> config.advice[2] [] n = 5 -> config.advice[3],
              c.start + c.row)

\* What instance idx binds, from the circuit's inputs and the host's answer alone.
ExpectedCell(idx, failAt, n) ==
    LET a == circuit.a[idx + 1]
        b == circuit.b[idx + 1]
        sel == circuit.mux
    IN  IF failAt # 0 /\ n >= failAt THEN Unassigned
        ELSE CASE n = 1 -> Known(1) [] n = 2 -> sel [] n = 3 -> a [] n = 4 -> b
               [] n = 5 -> IF sel.known
                           THEN Known(a.v * (1 + FieldOrder - sel.v) + b.v * sel.v)
                           ELSE Unknown

\* The verdict, from the circuit's inputs and the host's answers alone.
ExpectedVerdict ==
    \A n \in DOMAIN calls :
        calls[n].failAt = 1 \/ (calls[n].failAt = 0 /\ circuit.mux.known)

\* C9: in whatever order the L invocations run, each instance ends with the bound
\* values (selector, sel, in_a, in_b, out) that its own inputs and the host's answers
\* to it determine, and the verdict of the constraint system is determined the same
\* way: nothing depends on the position in the order or on another instance's cells.
C9_OrderInsensitive ==
    (pc = "done" /\ circuit # DefaultCircuit)
    => /\ {calls[n].inst : n \in DOMAIN calls} = 0..(L - 1)
       /\ Len(calls) = L
       /\ \A n \in DOMAIN calls : \A m \in 1..5 :
            InstanceCell(calls[n], m) = ExpectedCell(calls[n].inst, calls[n].failAt, m)
       /\ Satisfied(meta, lay) = ExpectedVerdict

\* A run in reverse order in which every binding was accepted.
C9_Witness ==
    /\ pc = "done" /\ circuit # DefaultCircuit /\ L >= 2
    /\ order[1] = L - 1
    /\ \A n \in DOMAIN calls : calls[n].ok
    /\ circuit.mux = Known(1)
    /\ Satisfied(meta, lay)

====
